---- MODULE Spec2Model ----
(***************************************************************************)
(* A model of the LLVM backend's configuration (lib/llvm-backend/src/      *)
(* config.rs) and of its trampoline generator (lib/llvm-backend/src/       *)
(* trampolines.rs).                                                        *)
(*                                                                         *)
(* The trampoline generator is modelled as the state machine that emits    *)
(* LLVM IR into a module: one action per step of generate_trampolines and  *)
(* generate_trampoline.  The emitted body is kept as data, so that it can  *)
(* be inspected and, for the argument round trip, executed.                *)
(***************************************************************************)
EXTENDS Integers, Sequences, FiniteSets, TLC

\* Bounds of the model.
MaxSigs == 3
MaxParams == 3
MaxReturns == 2
MaxClassifyReturns == 5
MaxRtParams == 2
MaxCompilers == 2

SeqUpTo(S, n) == UNION {[1..m -> S] : m \in 0..n}

\* wasmer_runtime_core::types::Type
Types == {"I32", "I64", "F32", "F64", "V128"}

(***************************************************************************)
(* trampolines.rs: pure helpers                                            *)
(***************************************************************************)

type_to_llvm(ty) ==
    CASE ty = "I32" -> "i32"
      [] ty = "I64" -> "i64"
      [] ty = "F32" -> "f32"
      [] ty = "F64" -> "f64"
      [] ty = "V128" -> "i128"

\* cast_ptr_ty with the V128 arm copied from the I64 arm.
cast_ptr_ty_v128_as_i64(wasmer_ty) ==
    CASE wasmer_ty = "I32" -> [pointee |-> "i32"]
      [] wasmer_ty = "F32" -> [pointee |-> "f32"]
      [] wasmer_ty = "I64" -> [pointee |-> "i64"]
      [] wasmer_ty = "F64" -> [pointee |-> "f64"]
      [] wasmer_ty = "V128" -> [pointee |-> "i64"]

\* The closure cast_ptr_ty: the pointer type a parameter is loaded through.
cast_ptr_ty(wasmer_ty) ==
    CASE wasmer_ty = "I32" -> [pointee |-> "i32"]
      [] wasmer_ty = "F32" -> [pointee |-> "f32"]
      [] wasmer_ty = "I64" -> [pointee |-> "i64"]
      [] wasmer_ty = "F64" -> [pointee |-> "f64"]
      [] wasmer_ty = "V128" -> [pointee |-> "i128"]

Bitwidth(ty) ==
    CASE ty \in {"I32", "F32"} -> 32
      [] ty \in {"I64", "F64"} -> 64
      [] ty = "V128" -> 128

func_sig_returns_bitwidths(func_sig) ==
    [k \in 1..Len(func_sig.returns) |-> Bitwidth(func_sig.returns[k])]

\* The match with the [64, 32, 32] pattern written [64, 64, 32].
is_sret_of_wrong_pattern(bitwidths) ==
    ~ \/ bitwidths = <<>>
      \/ Len(bitwidths) = 1
      \/ bitwidths = <<32, 64>>
      \/ bitwidths = <<64, 32>>
      \/ bitwidths = <<64, 64>>
      \/ bitwidths = <<32, 32>>
      \/ bitwidths = <<32, 32, 32>>
      \/ bitwidths = <<32, 32, 64>>
      \/ bitwidths = <<64, 64, 32>>
      \/ bitwidths = <<32, 32, 32, 32>>

\* The match on the bit widths: FALSE for the listed slices, TRUE otherwise.
is_sret_of(bitwidths) ==
    ~ \/ bitwidths = <<>>
      \/ Len(bitwidths) = 1
      \/ bitwidths = <<32, 64>>
      \/ bitwidths = <<64, 32>>
      \/ bitwidths = <<64, 64>>
      \/ bitwidths = <<32, 32>>
      \/ bitwidths = <<32, 32, 32>>
      \/ bitwidths = <<32, 32, 64>>
      \/ bitwidths = <<64, 32, 32>>
      \/ bitwidths = <<32, 32, 32, 32>>

\* The aggregate built from the parameters instead of the results.
sret_ty_of_params(func_sig) ==
    [k \in 1..Len(func_sig.params) |-> type_to_llvm(func_sig.params[k])]

\* context.struct_type(&basic_types, false): one field per result, in order.
sret_ty_of(func_sig) ==
    [k \in 1..Len(func_sig.returns) |-> type_to_llvm(func_sig.returns[k])]

\* abi::rets_from_call: the result values of the call, one per declared
\* result in declaration order, each of the LLVM type of its result; read
\* from the synthetic aggregate when the return is indirect.
rets_from_call(func_sig) ==
    [k \in 1..Len(func_sig.returns) |->
        [ty |-> type_to_llvm(func_sig.returns[k]),
         result |-> k - 1,
         via |-> IF is_sret_of(func_sig_returns_bitwidths(func_sig))
                 THEN "sret" ELSE "value"]]

\* intrinsics.void_ty.fn_type(&[ctx_ptr, func_ptr, i64_ptr, i64_ptr], false)
trampoline_sig ==
    [ret |-> "void",
     params |-> <<"ctx_ptr", "func_ptr", "i64_ptr", "i64_ptr">>,
     var_args |-> FALSE]

\* The name without the index.
trampoline_name_no_index(sig_index) == <<"trmp", 0>>

\* format!("trmp{}", sig_index.index())
trampoline_name(sig_index) == <<"trmp", sig_index>>

\* The lengths trampoline_func.get_params() is matched against: the slice
\* pattern of four names accepts 4, the wildcard arm takes every other one.
GetParamsLens == {3, 4, 5}

(***************************************************************************)
(* State                                                                   *)
(***************************************************************************)
VARIABLES
    info_signatures,  \* info.signatures: the module's signature table
    module,           \* the LLVM module: the sequence of its functions
    sig_pos,          \* generate_trampolines: position of the loop (1-based)
    pc,               \* the step the generator is at
    builder_pos,      \* the builder's insertion point <<function, block>>
    args_vec,         \* generate_trampoline: the callee's argument list
    i,                \* generate_trampoline: slot counter of the parameters
    param_pos,        \* position of the parameter loop
    rets,             \* generate_trampoline: the result values
    idx,              \* generate_trampoline: slot counter of the results
    ret_pos,          \* position of the result loop
    is_sret,          \* generate_trampoline: _is_sret
    result,           \* what generate_trampolines returned, "none" before
    \* a call of a generated trampoline
    run_pc,           \* "idle", "running" or "called"
    run_fn,           \* the function of the module that runs
    run_ip,           \* the next instruction of its body
    args_buf,         \* the memory at args_ptr, in 32-bit words
    arg_vals,         \* the argument values the caller passed
    loaded,           \* the values the trampoline has loaded
    callee_args,      \* the values the callee received
    \* LLVMConfig
    config,           \* the LLVMConfig object
    compilers,        \* the Compilers compiler() has returned
    \* a call of LLVMConfig::target_machine
    tm_pc,            \* the step the call is at
    tm_trace,         \* the steps the call has run, in order
    initialized,      \* the LLVM targets initialized so far
    llvm_cpu_features,\* the feature string built, None before
    target_machine,   \* the TargetMachine created, None before
    outcome           \* how the call ended, "none" before

gen_vars == <<info_signatures, module, sig_pos, pc, builder_pos, args_vec, i,
              param_pos, rets, idx, ret_pos, is_sret, result>>

run_vars == <<run_pc, run_fn, run_ip, args_buf, arg_vals, loaded, callee_args>>

cfg_vars == <<config, compilers>>

tm_vars == <<tm_pc, tm_trace, initialized, llvm_cpu_features, target_machine,
             outcome>>

vars == <<gen_vars, run_vars, cfg_vars, tm_vars>>

func_sig == info_signatures[sig_pos]

Emit(instr) ==
    module' = [module EXCEPT ![builder_pos[1]].blocks[builder_pos[2]].instrs =
                   Append(@, instr)]

InitGen(tables) ==
    /\ info_signatures \in tables
    /\ module = <<>>
    /\ sig_pos = 1
    /\ pc = "loop"
    /\ builder_pos = <<0, 0>>
    /\ args_vec = <<>>
    /\ i = 0
    /\ param_pos = 1
    /\ rets = <<>>
    /\ idx = 0
    /\ ret_pos = 1
    /\ is_sret = FALSE
    /\ result = "none"

(***************************************************************************)
(* generate_trampolines                                                    *)
(*                                                                         *)
(* The module is kept with the trampolines only: the functions compiled    *)
(* before are not named trmp<n> and the generator never reads them.  The   *)
(* function type and the attributes of signatures[sig_index] are kept as   *)
(* the tokens "func_ptr" and "func_attrs".                                 *)
(***************************************************************************)

\* One iteration of the loop up to the call of generate_trampoline: declare
\* the trampoline of the signature in the module.
AddFunction ==
    /\ pc = "loop"
    /\ sig_pos <= Len(info_signatures)
    /\ module' = Append(module,
                        [name |-> trampoline_name(sig_pos - 1),
                         ty |-> trampoline_sig,
                         linkage |-> "External",
                         blocks |-> <<>>])
    /\ pc' = "entry"
    /\ UNCHANGED <<info_signatures, sig_pos, builder_pos, args_vec, i,
                   param_pos, rets, idx, ret_pos, is_sret, result>>
    /\ UNCHANGED <<run_vars, cfg_vars, tm_vars>>

\* The loop is over: Ok(()).
LoopExit ==
    /\ pc = "loop"
    /\ sig_pos > Len(info_signatures)
    /\ result' = "Ok"
    /\ pc' = "done"
    /\ UNCHANGED <<info_signatures, module, sig_pos, builder_pos, args_vec, i,
                   param_pos, rets, idx, ret_pos, is_sret>>
    /\ UNCHANGED <<run_vars, cfg_vars, tm_vars>>

(***************************************************************************)
(* generate_trampoline                                                     *)
(***************************************************************************)

\* Append the entry block, position the builder at its end and take the four
\* parameters; any other number of parameters is the error, which the ? of
\* generate_trampolines returns at once.
EntryWith(pc_on_error) ==
    /\ pc = "entry"
    /\ LET f == Len(module)
           withEntry == [module EXCEPT ![f].blocks =
                            Append(@, [label |-> "entry", instrs |-> <<>>])]
       IN /\ module' = withEntry
          /\ builder_pos' = <<f, Len(withEntry[f].blocks)>>
    /\ \E n \in GetParamsLens :
          IF n = 4
          THEN /\ pc' = "classify"
               /\ result' = result
          ELSE /\ pc' = pc_on_error
               /\ result' = "Err"
    /\ UNCHANGED <<info_signatures, sig_pos, args_vec, i, param_pos, rets,
                   idx, ret_pos, is_sret>>
    /\ UNCHANGED <<run_vars, cfg_vars, tm_vars>>

\* The error noted, without the early return.
Entry_no_early_return == EntryWith("classify")

Entry == EntryWith("done")

\* Classify the return; an indirect return allocates the aggregate and
\* passes its address first.  Then the context pointer.
Classify ==
    /\ pc = "classify"
    /\ LET sret == is_sret_of(func_sig_returns_bitwidths(func_sig))
       IN /\ is_sret' = sret
          /\ IF sret
             THEN /\ Emit([op |-> "alloca", ty |-> sret_ty_of(func_sig)])
                  /\ args_vec' = <<[kind |-> "sret",
                                    sret_ty |-> sret_ty_of(func_sig)],
                                   [kind |-> "vmctx"]>>
             ELSE /\ module' = module
                  /\ args_vec' = <<[kind |-> "vmctx"]>>
    /\ i' = 0
    /\ param_pos' = 1
    /\ pc' = "params"
    /\ UNCHANGED <<info_signatures, sig_pos, builder_pos, rets, idx, ret_pos,
                   result>>
    /\ UNCHANGED <<run_vars, cfg_vars, tm_vars>>

\* The slot counter without the second increment for a V128.
param_slots_always_one(param_ty) == 1

\* The slots a value of the type takes in the args buffer.
param_slots(param_ty) == IF param_ty = "V128" THEN 2 ELSE 1

\* One iteration of the parameter loop: load the parameter through a typed
\* pointer to slot i of args_ptr and advance i.
LoadParam ==
    /\ pc = "params"
    /\ param_pos <= Len(func_sig.params)
    /\ LET param_ty == func_sig.params[param_pos]
           casted_pointer_type == cast_ptr_ty(param_ty)
       IN /\ Emit([op |-> "load", base |-> "args_ptr", index |-> i,
                   ptr_ty |-> casted_pointer_type])
          /\ args_vec' = Append(args_vec,
                                [kind |-> "arg", slot |-> i,
                                 ty |-> casted_pointer_type.pointee])
          /\ i' = i + param_slots(param_ty)
    /\ param_pos' = param_pos + 1
    /\ UNCHANGED <<info_signatures, sig_pos, pc, builder_pos, rets, idx,
                   ret_pos, is_sret, result>>
    /\ UNCHANGED <<run_vars, cfg_vars, tm_vars>>

\* The call, with the attributes recorded for the signature, and its results.
BuildCall ==
    /\ pc = "params"
    /\ param_pos > Len(func_sig.params)
    /\ Emit([op |-> "call", callee |-> "func_ptr", args |-> args_vec,
             attrs |-> <<"func_attrs", sig_pos - 1>>])
    /\ rets' = rets_from_call(func_sig)
    /\ idx' = 0
    /\ ret_pos' = 1
    /\ pc' = "rets"
    /\ UNCHANGED <<info_signatures, sig_pos, builder_pos, args_vec, i,
                   param_pos, is_sret, result>>
    /\ UNCHANGED <<run_vars, cfg_vars, tm_vars>>

\* The slot counter without the second increment for an i128.
ret_slots_always_one(llvm_ty) == 1

\* The slots a result value of the LLVM type takes in the returns buffer.
ret_slots(llvm_ty) == IF llvm_ty = "i128" THEN 2 ELSE 1

\* One iteration of rets.iter().for_each: store the value through a typed
\* pointer to slot idx of returns_ptr and advance idx.
StoreRet ==
    /\ pc = "rets"
    /\ ret_pos <= Len(rets)
    /\ LET v == rets[ret_pos]
       IN /\ Emit([op |-> "store", base |-> "returns_ptr", index |-> idx,
                   ptr_ty |-> [pointee |-> v.ty], value |-> v])
          /\ idx' = idx + ret_slots(v.ty)
    /\ ret_pos' = ret_pos + 1
    /\ UNCHANGED <<info_signatures, sig_pos, pc, builder_pos, args_vec, i,
                   param_pos, rets, is_sret, result>>
    /\ UNCHANGED <<run_vars, cfg_vars, tm_vars>>

\* builder.build_return(None); Ok(()), and the loop goes on.
BuildReturn ==
    /\ pc = "rets"
    /\ ret_pos > Len(rets)
    /\ Emit([op |-> "ret_void"])
    /\ sig_pos' = sig_pos + 1
    /\ pc' = "loop"
    /\ UNCHANGED <<info_signatures, builder_pos, args_vec, i, param_pos, rets,
                   idx, ret_pos, is_sret, result>>
    /\ UNCHANGED <<run_vars, cfg_vars, tm_vars>>

NextGen ==
    \/ AddFunction
    \/ LoopExit
    \/ Entry
    \/ Classify
    \/ LoadParam
    \/ BuildCall
    \/ StoreRet
    \/ BuildReturn

\* The instructions of a function, block after block.
RECURSIVE Flatten(_)
Flatten(blocks) ==
    IF blocks = <<>> THEN <<>>
    ELSE Head(blocks).instrs \o Flatten(Tail(blocks))

(***************************************************************************)
(* A call of a generated trampoline.  The args buffer is untyped memory,   *)
(* kept in 32-bit words: a 64-bit slot is two words, and a typed load at   *)
(* slot s reads the words of its type from word 2 * s on.                  *)
(***************************************************************************)

\* The contents a 32-bit word of an argument can have.
Words == {"a", "b"}

\* The 32-bit words a value of the LLVM type takes in memory.
WordsOfLlvm(llvm_ty) ==
    CASE llvm_ty \in {"i32", "f32"} -> 1
      [] llvm_ty \in {"i64", "f64"} -> 2
      [] llvm_ty = "i128" -> 4

\* The values of a type, each the sequence of its words.
ValuesOf(ty) == [1..WordsOfLlvm(type_to_llvm(ty)) -> Words]

ArgValues(params) ==
    {vals \in [1..Len(params) -> UNION {ValuesOf(ty) : ty \in Types}] :
        \A k \in 1..Len(params) : vals[k] \in ValuesOf(params[k])}

ReadWord(buf, w) == IF w \in DOMAIN buf THEN buf[w] ELSE "out_of_bounds"

\* The typed load of the value at a slot of the buffer.
LoadAt(buf, slot, llvm_ty) ==
    [j \in 1..WordsOfLlvm(llvm_ty) |-> ReadWord(buf, 2 * slot + j)]

\* The caller's side: the value written at a slot of the buffer.
WriteAt(buf, slot, val) ==
    [w \in DOMAIN buf |->
        IF w - 2 * slot \in DOMAIN val THEN val[w - 2 * slot] ELSE buf[w]]

\* The caller's side: the slots a value of the type takes.
CallerSlots(ty) == IF ty = "V128" THEN 2 ELSE 1

RECURSIVE CallerTotalSlots(_)
CallerTotalSlots(params) ==
    IF params = <<>> THEN 0
    ELSE CallerSlots(Head(params)) + CallerTotalSlots(Tail(params))

\* The caller's side: the buffer after the k-th and later arguments are
\* written, slot being the slot of the k-th.
RECURSIVE EncodeFrom(_, _, _, _, _)
EncodeFrom(buf, params, vals, k, slot) ==
    IF k > Len(params) THEN buf
    ELSE EncodeFrom(WriteAt(buf, slot, vals[k]), params, vals, k + 1,
                    slot + CallerSlots(params[k]))

\* The caller's side: a buffer of the slots of the parameters, 1 per scalar
\* and 2 per V128, not initialized before the arguments are written.
EncodeArgs(params, vals) ==
    EncodeFrom([w \in 1..(2 * CallerTotalSlots(params)) |-> "junk"],
               params, vals, 1, 0)

\* The caller fills the args buffer and calls a generated trampoline.
Invoke ==
    /\ result = "Ok"
    /\ run_pc = "idle"
    /\ \E f \in 1..Len(module) :
          \E vals \in ArgValues(info_signatures[module[f].name[2] + 1].params) :
             /\ run_fn' = f
             /\ arg_vals' = vals
             /\ args_buf' =
                  EncodeArgs(info_signatures[module[f].name[2] + 1].params, vals)
    /\ run_ip' = 1
    /\ run_pc' = "running"
    /\ loaded' = <<>>
    /\ UNCHANGED <<gen_vars, callee_args, cfg_vars, tm_vars>>

RunInstr == Flatten(module[run_fn].blocks)[run_ip]

\* The trampoline allocates the aggregate of an indirect return.
RunAlloca ==
    /\ run_pc = "running"
    /\ RunInstr.op = "alloca"
    /\ run_ip' = run_ip + 1
    /\ UNCHANGED <<gen_vars, run_pc, run_fn, args_buf, arg_vals, loaded,
                   callee_args, cfg_vars, tm_vars>>

\* The trampoline loads one parameter through its typed pointer.
RunLoad ==
    /\ run_pc = "running"
    /\ RunInstr.op = "load"
    /\ loaded' = Append(loaded,
                        LoadAt(args_buf, RunInstr.index, RunInstr.ptr_ty.pointee))
    /\ run_ip' = run_ip + 1
    /\ UNCHANGED <<gen_vars, run_pc, run_fn, args_buf, arg_vals, callee_args,
                   cfg_vars, tm_vars>>

\* The trampoline calls the callee with the loaded values.
RunCall ==
    /\ run_pc = "running"
    /\ RunInstr.op = "call"
    /\ callee_args' = loaded
    /\ run_pc' = "called"
    /\ UNCHANGED <<gen_vars, run_fn, run_ip, args_buf, arg_vals, loaded,
                   cfg_vars, tm_vars>>

NextRun ==
    \/ Invoke
    \/ RunAlloca
    \/ RunLoad
    \/ RunCall

(***************************************************************************)
(* config.rs: LLVMConfig                                                   *)
(***************************************************************************)

None == [some |-> FALSE]
Some(v) == [some |-> TRUE, value |-> v]

Architectures == {"X86_64", "Arm", "Aarch64"}
CpuFeatures == {"AVX2", "SSE42"}
WasmFeatures == {"simd"}

Targets ==
    {[architecture |-> a, cpu_features |-> c] :
        a \in Architectures, c \in SUBSET CpuFeatures}

\* LLVMConfig::new(): the default Features, and the default Target, which
\* is the host's.
LLVMConfig_new(host) ==
    [enable_nan_canonicalization |-> TRUE,
     enable_verifier |-> FALSE,
     opt_level |-> "Aggressive",
     features |-> {},
     target |-> host]

reloc_mode == "Static"

code_model == "Large"

\* LLVMCompiler::new(&config): the Compiler keeps its own copy of the
\* configuration it is built from.
LLVMCompiler_new(cfg) == [config |-> cfg]

\* A write through features_mut().
features_mut ==
    /\ tm_pc = "idle"
    /\ \E fs \in SUBSET WasmFeatures :
          /\ fs # config.features
          /\ config' = [config EXCEPT !.features = fs]
    /\ UNCHANGED <<compilers, gen_vars, run_vars, tm_vars>>

\* A write through target_mut().
target_mut ==
    /\ tm_pc = "idle"
    /\ \E t \in Targets :
          /\ t # config.target
          /\ config' = [config EXCEPT !.target = t]
    /\ UNCHANGED <<compilers, gen_vars, run_vars, tm_vars>>

compilerOf(cfg) ==
    /\ tm_pc = "idle"
    /\ Len(compilers) < MaxCompilers
    /\ compilers' = Append(compilers, LLVMCompiler_new(cfg))
    /\ UNCHANGED <<config, gen_vars, run_vars, tm_vars>>

\* The Compiler built from a new configuration instead of this one.
compiler_of_new == compilerOf(LLVMConfig_new(config.target))

\* compiler(): Box::new(LLVMCompiler::new(&self)).
compiler == compilerOf(config)

\* An assignment to the public field opt_level.
OptLevels == {"None", "Less", "Default", "Aggressive"}

set_opt_level ==
    /\ tm_pc = "idle"
    /\ \E l \in OptLevels :
          /\ l # config.opt_level
          /\ config' = [config EXCEPT !.opt_level = l]
    /\ UNCHANGED <<compilers, gen_vars, run_vars, tm_vars>>

NextConfig ==
    \/ features_mut
    \/ target_mut
    \/ compiler

(***************************************************************************)
(* config.rs: LLVMConfig::target_machine                                   *)
(***************************************************************************)

\* The match with an arm for every architecture.
initializer_of_any(architecture) ==
    CASE architecture = "X86_64" -> "x86"
      [] OTHER -> "aarch64"

\* The arms of the match on triple.architecture: the LLVM target that is
\* initialized, unimplemented!() for any other architecture.
initializer_of(architecture) ==
    CASE architecture = "X86_64" -> "x86"
      [] architecture = "Arm" -> "aarch64"
      [] OTHER -> "unimplemented"

\* The match on triple.architecture.
TmDispatch ==
    /\ tm_pc = "idle"
    /\ tm_trace' = Append(tm_trace, "dispatch")
    /\ LET init == initializer_of(config.target.architecture)
       IN IF init # "unimplemented"
          THEN /\ initialized' = initialized \cup {init}
               /\ tm_pc' = "check"
               /\ outcome' = outcome
          ELSE /\ initialized' = initialized
               /\ tm_pc' = "done"
               /\ outcome' = "UnsupportedTarget"
    /\ UNCHANGED <<llvm_cpu_features, target_machine, gen_vars, run_vars,
                   cfg_vars>>

\* if !cpu_features.contains(CpuFeature::AVX2) { panic!(...) }
TmCheckFeatures ==
    /\ tm_pc = "check"
    /\ tm_trace' = Append(tm_trace, "feature_check")
    /\ IF "AVX2" \notin config.target.cpu_features
       THEN /\ tm_pc' = "done"
            /\ outcome' = "MissingRequiredFeature"
       ELSE /\ tm_pc' = "features"
            /\ outcome' = outcome
    /\ UNCHANGED <<initialized, llvm_cpu_features, target_machine, gen_vars,
                   run_vars, cfg_vars>>

\* filter_map: the LLVM name of a feature, <<>> for a feature without one.
llvm_feature(feature) == IF feature = "AVX2" THEN <<"+avx2">> ELSE <<>>

\* The cpu features formatted as LLVM strings.
TmFeatureString ==
    /\ tm_pc = "features"
    /\ tm_trace' = Append(tm_trace, "feature_string")
    /\ llvm_cpu_features' =
          Some((IF "AVX2" \in config.target.cpu_features
                THEN llvm_feature("AVX2") ELSE <<>>)
               \o (IF "SSE42" \in config.target.cpu_features
                   THEN llvm_feature("SSE42") ELSE <<>>))
    /\ tm_pc' = "lookup"
    /\ UNCHANGED <<initialized, target_machine, outcome, gen_vars, run_vars,
                   cfg_vars>>

\* LLVMTarget::from_name(&arch_string).unwrap(): the lookup of the target by
\* the architecture's name gives an Option, and None panics.
TmLookup ==
    /\ tm_pc = "lookup"
    /\ tm_trace' = Append(tm_trace, "lookup")
    /\ \E found \in BOOLEAN :
          IF found
          THEN /\ tm_pc' = "create"
               /\ outcome' = outcome
          ELSE /\ tm_pc' = "done"
               /\ outcome' = "UnwrapNone"
    /\ UNCHANGED <<initialized, llvm_cpu_features, target_machine, gen_vars,
                   run_vars, cfg_vars>>

\* llvm_target.create_target_machine(...).unwrap(): an Option again.
TmCreate ==
    /\ tm_pc = "create"
    /\ tm_trace' = Append(tm_trace, "create")
    /\ \E created \in BOOLEAN :
          IF created
          THEN /\ target_machine' =
                    Some([triple |-> config.target.architecture,
                          cpu |-> config.target.architecture,
                          features |-> llvm_cpu_features.value,
                          level |-> config.opt_level,
                          reloc_mode |-> reloc_mode,
                          code_model |-> code_model])
               /\ outcome' = "Ok"
          ELSE /\ target_machine' = target_machine
               /\ outcome' = "UnwrapNone"
    /\ tm_pc' = "done"
    /\ UNCHANGED <<initialized, llvm_cpu_features, gen_vars, run_vars,
                   cfg_vars>>

NextTargetMachine ==
    \/ TmDispatch
    \/ TmCheckFeatures
    \/ TmFeatureString
    \/ TmLookup
    \/ TmCreate

(***************************************************************************)
(* Specifications                                                          *)
(***************************************************************************)

FuncSigs(maxParams, maxReturns) ==
    {[params |-> p, returns |-> r] :
        p \in SeqUpTo(Types, maxParams), r \in SeqUpTo(Types, maxReturns)}

InitRun ==
    /\ run_pc = "idle"
    /\ run_fn = 0
    /\ run_ip = 0
    /\ args_buf = <<>>
    /\ arg_vals = <<>>
    /\ loaded = <<>>
    /\ callee_args = <<>>

InitConfig(hosts) ==
    /\ \E host \in hosts : config = LLVMConfig_new(host)
    /\ compilers = <<>>

InitTm ==
    /\ tm_pc = "idle"
    /\ tm_trace = <<>>
    /\ initialized = {}
    /\ llvm_cpu_features = None
    /\ target_machine = None
    /\ outcome = "none"

Host == [architecture |-> "X86_64", cpu_features |-> {"AVX2", "SSE42"}]

InitOf(tables, hosts) ==
    /\ InitGen(tables)
    /\ InitRun
    /\ InitConfig(hosts)
    /\ InitTm

\* One signature, every parameter and result list within the bounds.
MarshalTables == {<<s>> : s \in FuncSigs(MaxParams, MaxReturns)}

InitMarshal == InitOf(MarshalTables, {Host})

SpecMarshal == InitMarshal /\ [][NextGen]_vars

\* One signature, every result list up to the longest one the match
\* distinguishes and one more.
ClassifyTables == {<<s>> : s \in FuncSigs(1, MaxClassifyReturns)}

InitClassify == InitOf(ClassifyTables, {Host})

SpecClassify == InitClassify /\ [][NextGen]_vars

\* Signature tables of several signatures, direct and indirect returns,
\* scalar and vector parameters; a table may be empty and may repeat a
\* signature.
ModuleSigs ==
    {[params |-> <<>>, returns |-> <<>>],
     [params |-> <<"I32">>, returns |-> <<"I64">>],
     [params |-> <<"V128", "I32">>, returns |-> <<"F64">>],
     [params |-> <<>>, returns |-> <<"V128", "I32">>]}

ModuleTables == SeqUpTo(ModuleSigs, MaxSigs)

InitModule == InitOf(ModuleTables, {Host})

SpecModule == InitModule /\ [][NextGen]_vars

\* One signature, generated and then called with every argument list.
RoundTripReturns == {<<>>, <<"I64">>, <<"V128", "I32">>}

RoundTripTables ==
    {<<[params |-> p, returns |-> r]>> :
        p \in SeqUpTo(Types, MaxRtParams), r \in RoundTripReturns}

InitRoundTrip == InitOf(RoundTripTables, {Host})

NextRoundTrip == NextGen \/ NextRun

SpecRoundTrip == InitRoundTrip /\ [][NextRoundTrip]_vars

\* The configuration of every host, its mutations and its compiler().
InitCompilerConfig == InitOf({<<>>}, Targets)

SpecCompilerConfig == InitCompilerConfig /\ [][NextConfig]_vars

\* target_machine() on a configuration of every target and feature set.
NextTarget == NextTargetMachine \/ features_mut \/ target_mut \/ set_opt_level

SpecTargetMachine == InitCompilerConfig /\ [][NextTarget]_vars

(***************************************************************************)
(* Reading the emitted code                                                *)
(***************************************************************************)

Instrs(f) == Flatten(module[f].blocks)

IsLoad(ins) == ins.op = "load"
IsStore(ins) == ins.op = "store"
IsCall(ins) == ins.op = "call"
IsAlloca(ins) == ins.op = "alloca"

Loads(f) == SelectSeq(Instrs(f), IsLoad)
Stores(f) == SelectSeq(Instrs(f), IsStore)
Calls(f) == SelectSeq(Instrs(f), IsCall)
Allocas(f) == SelectSeq(Instrs(f), IsAlloca)

\* The signature a function of the module was generated for, by its name.
SigOfFn(f) == info_signatures[module[f].name[2] + 1]

HasCall(f) == Calls(f) # <<>>
Returned(f) == Instrs(f) # <<>> /\ Instrs(f)[Len(Instrs(f))].op = "ret_void"

\* The slot offset after the first n values of the types: 2 slots for a
\* V128, 1 for any other type.
RECURSIVE SlotSum(_, _)
SlotSum(tys, n) ==
    IF n = 0 THEN 0
    ELSE SlotSum(tys, n - 1) + (IF tys[n] = "V128" THEN 2 ELSE 1)

WidthOf == [ty \in Types |->
               IF ty \in {"I32", "F32"} THEN 32
               ELSE IF ty \in {"I64", "F64"} THEN 64 ELSE 128]

WidthsOf(tys) == [k \in 1..Len(tys) |-> WidthOf[tys[k]]]

LlvmTyOf == [ty \in Types |->
                IF ty = "I32" THEN "i32"
                ELSE IF ty = "I64" THEN "i64"
                ELSE IF ty = "F32" THEN "f32"
                ELSE IF ty = "F64" THEN "f64" ELSE "i128"]

\* The bit-width sequences returned directly.
DirectWidths ==
    {<<>>} \cup {<<w>> : w \in {32, 64, 128}}
    \cup {<<32, 64>>, <<64, 32>>, <<64, 64>>, <<32, 32>>}
    \cup {<<32, 32, 32>>, <<32, 32, 64>>, <<64, 32, 32>>}
    \cup {<<32, 32, 32, 32>>}

Indirect(sig) == WidthsOf(sig.returns) \notin DirectWidths

(***************************************************************************)
(* Claims                                                                  *)
(***************************************************************************)

\* C1: once generate_trampoline has classified the return of a signature,
\* the return is direct (no struct return) exactly when the bit widths of
\* the results are one of: empty, any single value, [32,64], [64,32],
\* [64,64], [32,32], [32,32,32], [32,32,64], [64,32,32], [32,32,32,32];
\* the struct-return slot is allocated exactly in the other cases.
C1_Classification ==
    pc \in {"params", "rets"} =>
        /\ is_sret = (WidthsOf(func_sig.returns) \notin DirectWidths)
        /\ (Allocas(builder_pos[1]) # <<>>) = is_sret

\* C1 witness: [32,32,32,64] has been classified indirect.
C1_Witness ==
    /\ pc = "params"
    /\ func_sig.returns = <<"I32", "F32", "I32", "I64">>
    /\ is_sret = TRUE

\* C2: the arguments of the emitted call are the struct-return pointer
\* (exactly when the return is indirect, first, over an aggregate of one
\* field per result in declaration order), then the context pointer, then
\* one loaded value per declared parameter in declaration order: params + 1
\* arguments for a direct return, params + 2 for an indirect one.
C2_ArgumentList ==
    \A f \in 1..Len(module) :
        HasCall(f) =>
            LET sig == SigOfFn(f)
                args == Calls(f)[1].args
                n == Len(sig.params)
                off == IF Indirect(sig) THEN 1 ELSE 0
            IN /\ Len(Calls(f)) = 1
               /\ Len(args) = n + 1 + off
               /\ Indirect(sig) =>
                     /\ args[1].kind = "sret"
                     /\ args[1].sret_ty =
                          [k \in 1..Len(sig.returns) |-> LlvmTyOf[sig.returns[k]]]
                     /\ Allocas(f) = <<[op |-> "alloca", ty |-> args[1].sret_ty]>>
               /\ ~Indirect(sig) => Allocas(f) = <<>>
               /\ args[1 + off].kind = "vmctx"
               /\ \A k \in 1..n :
                     /\ args[1 + off + k].kind = "arg"
                     /\ args[1 + off + k].ty = LlvmTyOf[sig.params[k]]
                     /\ args[1 + off + k].slot = Loads(f)[k].index
               /\ Len(Loads(f)) = n

\* C2 witness: a call with an indirect return and two parameters has been
\* emitted, with four arguments.
C2_Witness ==
    /\ pc = "rets"
    /\ func_sig = [params |-> <<"I64", "F32">>, returns |-> <<"V128", "I32">>]
    /\ HasCall(1)
    /\ Len(Calls(1)[1].args) = 4

\* C3: the k-th declared parameter is loaded from the args buffer at the
\* slot offset that is the sum, over the parameters before it, of 2 for a
\* V128 and 1 for any other type, through a pointer to its own type; the
\* parameters consume that sum over all of them.
C3_ParamSlots ==
    \A f \in 1..Len(module) :
        HasCall(f) =>
            LET sig == SigOfFn(f)
            IN /\ Len(Loads(f)) = Len(sig.params)
               /\ \A k \in 1..Len(sig.params) :
                     /\ Loads(f)[k].index = SlotSum(sig.params, k - 1)
                     /\ Loads(f)[k].base = "args_ptr"
                     /\ Loads(f)[k].ptr_ty.pointee = LlvmTyOf[sig.params[k]]
               /\ (pc = "rets" /\ builder_pos[1] = f) =>
                     i = SlotSum(sig.params, Len(sig.params))

\* C3 witness: (V128, I32) has been loaded from the slots 0 and 2.
C3_Witness ==
    /\ pc = "rets"
    /\ func_sig.params = <<"V128", "I32">>
    /\ Loads(1)[1].index = 0
    /\ Loads(1)[2].index = 2
    /\ i = 3

\* C4: in a finished trampoline, direct or indirect, the k-th result is
\* stored into the returns buffer at the slot offset that is the sum, over
\* the results before it, of 2 for a V128 and 1 for any other type; every
\* declared result is stored once, in declaration order.
C4_ResultSlots ==
    \A f \in 1..Len(module) :
        Returned(f) =>
            LET sig == SigOfFn(f)
            IN /\ Len(Stores(f)) = Len(sig.returns)
               /\ \A k \in 1..Len(sig.returns) :
                     /\ Stores(f)[k].index = SlotSum(sig.returns, k - 1)
                     /\ Stores(f)[k].base = "returns_ptr"
                     /\ Stores(f)[k].value.result = k - 1
                     /\ Stores(f)[k].ptr_ty.pointee = LlvmTyOf[sig.returns[k]]
               /\ (pc = "loop" /\ builder_pos[1] = f) =>
                     idx = SlotSum(sig.returns, Len(sig.returns))

\* C4 witness: the indirect return (V128, I32) has been stored to the
\* slots 0 and 2.
C4_Witness ==
    /\ pc = "loop"
    /\ Len(module) = 1
    /\ SigOfFn(1).returns = <<"V128", "I32">>
    /\ is_sret = TRUE
    /\ Returned(1)
    /\ Stores(1)[1].index = 0
    /\ Stores(1)[2].index = 2

\* C5: when a trampoline calls its callee, the values it loaded from the
\* args buffer are the argument values the caller wrote there by the slot
\* rule, in order, and the slots of two parameters never overlap.
C5_RoundTrip ==
    run_pc = "called" =>
        /\ callee_args = arg_vals
        /\ LET ld == Loads(run_fn)
           IN \A j, k \in 1..Len(ld) :
                 j < k =>
                    2 * ld[j].index + WordsOfLlvm(ld[j].ptr_ty.pointee)
                        <= 2 * ld[k].index

\* C5 witness: (V128, I32) went through the buffer with distinct words.
C5_Witness ==
    /\ run_pc = "called"
    /\ SigOfFn(run_fn).params = <<"V128", "I32">>
    /\ arg_vals = << <<"a", "b", "b", "a">>, <<"b">> >>
    /\ callee_args = arg_vals

SupportedArchitectures == {"X86_64", "Arm"}

\* C6: for a supported architecture, target_machine succeeds exactly when
\* AVX2 is in the target's feature set, and fails with
\* MissingRequiredFeature exactly when it is not.
C6_SucceedsIffMandatoryFeatures ==
    (tm_pc = "done" /\ config.target.architecture \in SupportedArchitectures) =>
        /\ (outcome = "Ok") = ("AVX2" \in config.target.cpu_features)
        /\ (outcome = "MissingRequiredFeature") =
               ("AVX2" \notin config.target.cpu_features)

\* C7: target_machine runs its steps in a fixed order.  An unrecognized
\* architecture fails with UnsupportedTarget right after the dispatch,
\* whatever the feature set; a missing AVX2 fails with
\* MissingRequiredFeature right after the feature check, before the feature
\* string is built; the target machine is created only after both passed,
\* and never on a failure.
C7_StepOrder ==
    /\ \A k \in 1..Len(tm_trace) :
          tm_trace[k] =
             <<"dispatch", "feature_check", "feature_string", "lookup", "create">>[k]
    /\ tm_pc = "done" =>
          /\ config.target.architecture \notin SupportedArchitectures =>
                /\ outcome = "UnsupportedTarget"
                /\ tm_trace = <<"dispatch">>
          /\ (/\ config.target.architecture \in SupportedArchitectures
              /\ "AVX2" \notin config.target.cpu_features) =>
                /\ outcome = "MissingRequiredFeature"
                /\ tm_trace = <<"dispatch", "feature_check">>
    /\ outcome \in {"UnsupportedTarget", "MissingRequiredFeature"} =>
          /\ llvm_cpu_features = None
          /\ target_machine = None
    /\ llvm_cpu_features # None =>
          /\ config.target.architecture \in SupportedArchitectures
          /\ "AVX2" \in config.target.cpu_features
    /\ target_machine # None =>
          /\ llvm_cpu_features = Some(<<"+avx2">>)
          /\ outcome = "Ok"

\* C7 witness: an unrecognized architecture without AVX2 has failed with
\* UnsupportedTarget, the feature check not run.
C7_Witness ==
    /\ tm_pc = "done"
    /\ config.target = [architecture |-> "Aarch64", cpu_features |-> {}]
    /\ outcome = "UnsupportedTarget"
    /\ tm_trace = <<"dispatch">>

\* C8: a call of compiler() leaves the configuration as it is and adds one
\* Compiler that sees the features, the target and the options the
\* configuration has at the call; no step, a mutation through features_mut
\* or target_mut least of all, changes what a Compiler returned earlier
\* sees.
C8_CompilerSnapshot ==
    [][/\ Len(compilers') \in {Len(compilers), Len(compilers) + 1}
       /\ \A k \in 1..Len(compilers) : compilers'[k] = compilers[k]
       /\ Len(compilers') = Len(compilers) + 1 =>
             /\ config' = config
             /\ compilers'[Len(compilers')].config.features = config.features
             /\ compilers'[Len(compilers')].config.target = config.target
             /\ compilers'[Len(compilers')].config.opt_level = config.opt_level
      ]_vars

\* C8 witness: two Compilers of one configuration, mutated after the first
\* call and again after the second, each seeing the configuration of its
\* own call.
C8_Witness ==
    /\ Len(compilers) = 2
    /\ compilers[1].config.features = {}
    /\ compilers[2].config.features = {"simd"}
    /\ compilers[1].config.target # compilers[2].config.target
    /\ config.target # compilers[2].config.target

\* C9: when generate_trampolines has returned Ok, every signature index of
\* the table has exactly one function in the module named by it, of the
\* four-parameter void shape, whose body is finished: one call, the loads
\* and stores of its own signature, and a void return as the last
\* instruction and nowhere else; the functions of two indices differ.
C9_OneTrampolinePerSignature ==
    result = "Ok" =>
        /\ \A f, g \in 1..Len(module) :
              module[f].name = module[g].name => f = g
        /\ \A s \in 1..Len(info_signatures) :
              LET fs == {f \in 1..Len(module) : module[f].name = <<"trmp", s - 1>>}
              IN /\ Cardinality(fs) = 1
                 /\ \A f \in fs :
                       /\ module[f].ty.ret = "void"
                       /\ module[f].ty.params =
                             <<"ctx_ptr", "func_ptr", "i64_ptr", "i64_ptr">>
                       /\ Len(module[f].blocks) = 1
                       /\ Returned(f)
                       /\ \A n \in 1..(Len(Instrs(f)) - 1) :
                             Instrs(f)[n].op # "ret_void"
                       /\ Len(Calls(f)) = 1
                       /\ Len(Loads(f)) = Len(info_signatures[s].params)
                       /\ Len(Stores(f)) = Len(info_signatures[s].returns)

\* C9 witness: a table of three signatures, two of them the same, has its
\* three trampolines.
C9_Witness ==
    /\ result = "Ok"
    /\ Len(info_signatures) = 3
    /\ info_signatures[1] = info_signatures[3]
    /\ info_signatures[1] # info_signatures[2]
    /\ Len(module) = 3

====
